---- MODULE Spec2Model ----
(***************************************************************************)
(* The paced text-injection engine: class TypingSimulator of               *)
(* src/test-integration.js (lines 144-356).                                *)
(*                                                                         *)
(* JavaScript runs the engine on one event loop.  The public operations    *)
(* are called from event-loop tasks (shortcut and IPC handlers, main.js    *)
(* 147-155, 1446-1459), so they interleave with the runner only where the  *)
(* runner is suspended in an awaited exec callback or timer.  One runner   *)
(* action is therefore the whole continuation from one such suspension to  *)
(* the next; awaits of already settled promises are inside it.  A listener *)
(* runs inside the emit that calls it, so a call it makes is part of the   *)
(* step that emits.                                                        *)
(*                                                                         *)
(* The exec outcome, the value of Math.random(), the clipboard text and    *)
(* the registered listener are the environment (env) of a behaviour; each  *)
(* specification fixes the environments it lets in.                        *)
(*                                                                         *)
(* The operators of the runner take the simulator as a record, sim, and give *)
(* the set of records it can be in at the next suspension.  Each binds the  *)
(* record once (s \in {sim}) before it reads its fields.                    *)
(*                                                                         *)
(* Strings are sequences of one-character strings.  An optional value      *)
(* (undefined or a value) is the empty or the one-element sequence.        *)
(***************************************************************************)
EXTENDS Integers, Sequences, FiniteSets, TLC

(* ------------------------------ bounds -------------------------------- *)
MaxJobs == 2          \* successful enqueueText calls in one behaviour
MaxTextLen == 3       \* longest text drawn over Alphabet for batch mode
MaxCharTextLen == 2   \* longest text drawn over Alphabet for character mode
MaxClipboardJobs == 2 \* jobs, enqueued or awaited, where typeClipboard is called
MaxBraceLen == 2      \* longest text drawn over BraceAlphabet
MaxListenerJobs == 1  \* jobs enqueued from outside where a listener calls back
MaxProducerJobs == 3  \* jobs enqueued where several producers call enqueueText
MaxRateJobs == 2      \* jobs enqueued where the rate and the mode are set
MaxLiveJobs == 2      \* jobs enqueued where the runner is sure to go on

(* --------------------------- JavaScript values ------------------------ *)
Undefined == << >>
Some(x) == << x >>

JsString(v) == [t |-> "string", v |-> v]
JsNull == [t |-> "null", v |-> << >>]
JsUndefined == [t |-> "undefined", v |-> << >>]

\* !text  (line 180)
Falsy(x) == x.t \in {"null", "undefined"} \/ (x.t = "string" /\ x.v = << >>)

\* String(text)  (line 181)
StringOf(x) ==
    CASE x.t = "string" -> x.v
      [] x.t = "null" -> <<"n", "u", "l", "l">>
      [] x.t = "undefined" -> <<"u", "n", "d", "e", "f", "i", "n", "e", "d">>

\* a || b on an optional number: undefined and 0 are falsy
OrDefault(opt, d) == IF opt = Undefined \/ opt[1] = 0 THEN d ELSE opt[1]

\* a !== undefined ? a : b
IfDefined(opt, d) == IF opt = Undefined THEN d ELSE opt[1]

Max(a, b) == IF a >= b THEN a ELSE b

(* ------------------------------ tokens -------------------------------- *)
ENTER == <<"{", "E", "N", "T", "E", "R", "}">>
TAB == <<"{", "T", "A", "B", "}">>

IsPunctuationSentenceEndOnly(ch) == ch \in {".", "!", "?"}

\* /[\.\!\?\,;:]/.test(ch)  (line 287)
IsPunctuation(ch) == ch \in {".", "!", "?", ",", ";", ":"}
IsSentenceEndAnyPunctuation(ch) == ch \in {".", "!", "?", ",", ";", ":"}

\* /[\.\!\?]/.test(ch)  (line 289)
IsSentenceEnd(ch) == ch \in {".", "!", "?"}

(* ------------------------------ inputs -------------------------------- *)
Alphabet == {"a", ".", ",", "\n", "\t"}

RECURSIVE SeqsUpTo(_, _)
SeqsUpTo(S, n) ==
    IF n = 0 THEN { << >> }
    ELSE LET prev == SeqsUpTo(S, n - 1)
         IN  prev \cup { Append(p, c) : p \in {q \in prev : Len(q) = n - 1}, c \in S }

\* texts of the single-job specification
Texts == SeqsUpTo(Alphabet, MaxTextLen) \ { << >> }
CharTexts == SeqsUpTo(Alphabet, MaxCharTextLen) \ { << >> }

EmptyInputs == { JsString(<< >>), JsNull, JsUndefined }

EmptyMeta == [null |-> FALSE, batchMode |-> Undefined, wpm |-> Undefined,
              source |-> Undefined]
NullMeta == [EmptyMeta EXCEPT !.null = TRUE]
CharMeta == [EmptyMeta EXCEPT !.batchMode = Some(FALSE)]
\* { source: 'clipboard' }, line 201
ClipboardMeta == [EmptyMeta EXCEPT !.source = Some("clipboard")]

\* the other arguments of a call whose text is empty: left out, or given
EmptyCallInputs ==
    { [delayMs |-> Undefined, meta |-> EmptyMeta],
      [delayMs |-> Some(9), meta |-> NullMeta] }

\* the jobs of the engine specification: text and metadata
EngineJobs ==
    { [text |-> <<"a">>, meta |-> EmptyMeta],
      [text |-> <<"a", "\n", "b">>, meta |-> EmptyMeta],
      [text |-> <<"a">>, meta |-> NullMeta],
      [text |-> <<"a", "b">>, meta |-> CharMeta] }
DelayInputs == { Undefined, Some(9) }
WpmInputs == { -10, 0, 3, 5, 6, 90 }

VARIABLES
    queue,          \* this.queue
    isRunning,      \* this.isRunning
    isPaused,       \* this.isPaused
    currentJob,     \* this.currentJob: Undefined (null) or Some(job)
    wpm,            \* this.wpm
    batchMode,      \* this.batchMode
    defaultDelay,   \* this.defaultDelay
    maxBatchSize,   \* this.maxBatchSize
    minBatchSize,   \* this.minBatchSize
    pc,             \* where the runner is suspended, "idle" when no loop is active
    run,            \* the locals of _ensureRunning/_runJob/flushBatch
    nextId,         \* identity of the next job object
    dispatched,     \* every call of _sendBatch made by the runner, in order
    startedJobs,    \* ids of the jobs shifted off the queue, in order
    finishedJobs,   \* the jobs reported by job-done/job-error, in order
    truncated,      \* ids of the jobs whose loop was left by the pause break
    dropped,        \* ids of the jobs removed from the queue by stop()
    pauseMark,      \* the first pause() during the job in flight, not yet resumed or stopped
    interrupted,    \* ids of the jobs that were in flight when pause() or stop() was called
    phase,          \* where the events emitted so far stand: "closed" before the first
                    \* 'started' and after an 'idle', "open" after a 'started', "broken"
                    \* once an event has come out of turn
    stopMark,       \* the stop() of the last step, when it met a job in flight: the
                    \* job, and whether a pause() not yet resumed had come before it
    env,            \* what the surroundings of this behaviour can do: the values
                    \* Math.random() returns for the jitter (in hundredths), the
                    \* outcomes of exec (does it fail), the clipboard contents
    pendingClipboard, \* the typeClipboard calls waiting in their 250 ms timer
    activeLoops,    \* activations of _ensureRunning between line 226 and line 241
    listenerArmed,  \* the listener registered with once() has not been called yet
    emitted,        \* the events emitted by the last step, in order
    lastCall        \* the operation of the last step, its argument and result

vars == << queue, isRunning, isPaused, currentJob, wpm, batchMode, defaultDelay,
           maxBatchSize, minBatchSize, pc, run, nextId, dispatched, startedJobs,
           finishedJobs, truncated, dropped, pauseMark, interrupted, stopMark,
           phase, env, pendingClipboard, activeLoops, listenerArmed, emitted, lastCall >>

avgCharsPerWord == 5

NoJob == [id |-> 0, text |-> << >>, delayMs |-> 0, meta |-> EmptyMeta]

NoRun == [job |-> NoJob, useBatch |-> TRUE, wpm |-> 0, i |-> 0, batch |-> << >>,
          after |-> "loop", extraPause |-> 0, ctl |-> << >>]

\* A delay of the runner.  base and jitter are in units of 1/(100 * wpm) ms,
\* which keeps 60000 / (wpm * 5) * n * 0.85 and its random share exact:
\* the delay in ms is (base + jitter) / (100 * wpm) + extra + settle.
NoWait == [wpm |-> 0, base |-> 0, jitter |-> 0, extra |-> 0, settle |-> 0]

Suspended == {"send", "wait", "sendCtl", "settle", "sendChar", "waitChar"}

\* the engine and the runner as one record, with no event emitted yet
State ==
    [queue |-> queue, isRunning |-> isRunning, isPaused |-> isPaused,
     currentJob |-> currentJob, wpm |-> wpm, batchMode |-> batchMode,
     maxBatchSize |-> maxBatchSize, minBatchSize |-> minBatchSize,
     pc |-> pc, run |-> run, dispatched |-> dispatched,
     startedJobs |-> startedJobs, finishedJobs |-> finishedJobs,
     truncated |-> truncated, nextId |-> nextId, dropped |-> dropped,
     pauseMark |-> pauseMark, interrupted |-> interrupted, stopMark |-> Undefined,
     phase |-> phase,
     activeLoops |-> activeLoops, listenerArmed |-> listenerArmed,
     env |-> env, emitted |-> << >>]

Install(s) ==
    /\ queue' = s.queue
    /\ isRunning' = s.isRunning
    /\ isPaused' = s.isPaused
    /\ currentJob' = s.currentJob
    /\ wpm' = s.wpm
    /\ batchMode' = s.batchMode
    /\ maxBatchSize' = s.maxBatchSize
    /\ minBatchSize' = s.minBatchSize
    /\ pc' = s.pc
    /\ run' = s.run
    /\ dispatched' = s.dispatched
    /\ startedJobs' = s.startedJobs
    /\ finishedJobs' = s.finishedJobs
    /\ truncated' = s.truncated
    /\ nextId' = s.nextId
    /\ dropped' = s.dropped
    /\ pauseMark' = s.pauseMark
    /\ interrupted' = s.interrupted
    /\ stopMark' = s.stopMark
    /\ phase' = s.phase
    /\ activeLoops' = s.activeLoops
    /\ listenerArmed' = s.listenerArmed
    /\ emitted' = s.emitted

(* ------------------------------ the runner ---------------------------- *)
\* the turn of an event among those emitted before it: 'started' opens,
\* 'idle' closes, the events of a job come while open
NextPhase(phase0, name) ==
    CASE name = "started" -> IF phase0 = "closed" THEN "open" ELSE "broken"
      [] name = "idle" -> IF phase0 = "open" THEN "closed" ELSE "broken"
      [] name \in {"progress", "job-done", "job-error"} ->
             IF phase0 = "open" THEN "open" ELSE "broken"
      [] OTHER -> phase0

\* this.emit(name, ...) as far as the record of events goes
Emit(s, name, id) ==
    [s EXCEPT !.emitted = Append(@, [name |-> name, job |-> id]),
              !.phase = NextPhase(@, name)]

\* str.replace(/c/g, by)
RECURSIVE ReplaceAll(_, _, _)
ReplaceAll(str, c, by) ==
    IF str = << >> THEN << >>
    ELSE (IF Head(str) = c THEN by ELSE << Head(str) >>) \o ReplaceAll(Tail(str), c, by)

OpenBrace == <<"{", "{", "}">>
CloseBrace == <<"{", "}", "}">>

\* line 335: the two replace calls, one after the other
EscapeBraces(payload) == ReplaceAll(ReplaceAll(payload, "{", OpenBrace), "}", CloseBrace)

\* line 331: the batch is one of the two tokens
IsToken(batch) == batch = ENTER \/ batch = TAB

\* lines 330-336
Payload(batch) == IF IsToken(batch) THEN batch ELSE EscapeBraces(batch)

\* line 339
QuoteForPowerShell(payload) == ReplaceAll(payload, "'", <<"'", "'">>)

\* the value PowerShell gives the single-quoted literal of line 341: two
\* quotes are one quote, and a quote alone ends the literal
RECURSIVE PowerShellLiteral(_)
PowerShellLiteral(esc) ==
    IF esc = << >> THEN << >>
    ELSE IF Head(esc) # "'" THEN << Head(esc) >> \o PowerShellLiteral(Tail(esc))
    ELSE IF Len(esc) >= 2 /\ esc[2] = "'" THEN <<"'">> \o PowerShellLiteral(Tail(Tail(esc)))
    ELSE << >>

\* the string SendKeys.SendWait receives for the batch, lines 330-341
SendKeysArgument(batch) == PowerShellLiteral(QuoteForPowerShell(Payload(batch)))

\* _sendBatch(batch) up to the call of exec (lines 325-344): nothing is sent
\* for an empty batch
SendBatch(s, site, batch) ==
    IF batch = << >> THEN s
    ELSE [s EXCEPT !.dispatched =
            Append(@, [job |-> s.run.job.id, site |-> site, payload |-> batch,
                       useBatch |-> s.run.useBatch, keys |-> SendKeysArgument(batch),
                       err |-> FALSE, wait |-> NoWait])]

\* this.emit(name, ...) with the listeners it calls, which return before the
\* emitter goes on; defined with the operations a listener can call
RECURSIVE Notify(_, _, _)

RECURSIVE Loop(_), Scan(_), CharLoop(_), Continue(_)

\* the job is on record as reported
Reported(s, kind) ==
    [s EXCEPT !.finishedJobs = Append(@, [job |-> s.run.job, kind |-> kind,
                                          useBatch |-> s.run.useBatch])]

JobEndLeaves(sim, kind) ==
    UNION { (
    UNION { Notify([t EXCEPT !.currentJob = Undefined, !.run = NoRun,
                             !.isRunning = FALSE, !.activeLoops = @ - 1,
                             !.pc = "idle"], "idle", 0) :
              t \in Notify(Reported(s, kind), kind, s.run.job.id) }
    ) : s \in {sim} }

JobEndReportsTwice(sim, kind) ==
    UNION { (
    UNION { Loop([u EXCEPT !.currentJob = Undefined, !.run = NoRun]) :
              u \in UNION { Notify(t, "job-error", s.run.job.id) :
                              t \in Notify(Reported(s, kind), kind, s.run.job.id) } }
    ) : s \in {sim} }

JobEndRethrows(sim, kind) ==
    UNION { (
    IF kind = "job-error"
    THEN { [t EXCEPT !.run = NoRun, !.pc = "idle"] :
             t \in Notify(Reported(s, kind), kind, s.run.job.id) }
    ELSE UNION { Loop([t EXCEPT !.currentJob = Undefined, !.run = NoRun]) :
                   t \in Notify(Reported(s, kind), kind, s.run.job.id) }
    ) : s \in {sim} }

\* lines 234-238: the job is reported and the reference cleared, then the
\* while loop of _ensureRunning goes on
JobEnd(sim, kind) ==
    UNION { (
    UNION { Loop([t EXCEPT !.currentJob = Undefined, !.run = NoRun]) :
              t \in Notify(Reported(s, kind), kind, s.run.job.id) }
    ) : s \in {sim} }

\* flushBatch(extraPause), lines 255-264, up to the awaited _sendBatch; `after`
\* is the place of the call, where the code goes on once the flush returns
FlushBatch(sim, extraPause, after) ==
    UNION { (
    LET s1 == [s EXCEPT !.run.after = after, !.run.extraPause = extraPause]
    IN  IF s.run.batch = << >> THEN Continue(s1)
        ELSE { [SendBatch(s1, "literal", s.run.batch) EXCEPT !.pc = "send"] }
    ) : s \in {sim} }

\* a control token is handed to _sendBatch (lines 273, 279)
SendToken(sim, token) ==
    UNION { (
    { [SendBatch(s, "control", token) EXCEPT !.pc = "sendCtl", !.run.ctl = token] }
    ) : s \in {sim} }

\* the code after `await flushBatch(...)` at each place it is called
Continue(sim) ==
    UNION { (
    CASE s.run.after = "loop" -> Scan([s EXCEPT !.run.i = @ + 1])
      [] s.run.after = "enter" -> SendToken(s, ENTER)
      [] s.run.after = "tab" -> SendToken(s, TAB)
      [] s.run.after = "end" -> JobEnd(s, "job-done")
    ) : s \in {sim} }

AfterScanDropsRest(sim) == JobEnd(sim, "job-done")

\* lines 302-304
AfterScan(sim) ==
    UNION { (
    IF Len(s.run.batch) > 0 THEN FlushBatch(s, 0, "end")
    ELSE JobEnd(s, "job-done")
    ) : s \in {sim} }

\* line 287, the second disjunct: the batch has reached maxBatchSize
BatchFullExceeds(len, max) == len > max

BatchFull(len, max) == len >= max

\* the for loop of batch mode from index run.i (1-based), lines 266-300;
\* Math.random() < 0.12 is either outcome
Scan(sim) ==
    UNION { (
    LET str == s.run.job.text
        i == s.run.i
    IN  IF i > Len(str) THEN AfterScan(s)
        ELSE IF s.isPaused
        THEN AfterScan([s EXCEPT !.truncated = @ \cup {s.run.job.id}])
        ELSE LET ch == str[i]
                 s1 == [s EXCEPT !.run.batch = Append(@, ch)]
             IN  IF ch = "\n" THEN FlushBatch(s, 0, "enter")
                 ELSE IF ch = "\t" THEN FlushBatch(s, 0, "tab")
                 ELSE IF IsPunctuation(ch) \/ BatchFull(Len(s1.run.batch), s.maxBatchSize)
                 THEN FlushBatch(s1, IF IsSentenceEnd(ch) THEN 260 ELSE 0, "loop")
                 ELSE IF Len(s1.run.batch) >= s.minBatchSize
                 THEN FlushBatch(s1, 0, "loop") \cup Scan([s1 EXCEPT !.run.i = @ + 1])
                 ELSE Scan([s1 EXCEPT !.run.i = @ + 1])
    ) : s \in {sim} }

\* the for loop of character mode from index run.i, lines 307-316
CharLoop(sim) ==
    UNION { (
    LET str == s.run.job.text
        i == s.run.i
    IN  IF i > Len(str) THEN JobEnd(s, "job-done")
        ELSE IF s.isPaused
        THEN JobEnd([s EXCEPT !.truncated = @ \cup {s.run.job.id}], "job-done")
        ELSE LET ch == str[i]
                 site == IF ch \in {"\n", "\t"} THEN "control" ELSE "literal"
                 batch == IF ch = "\n" THEN ENTER ELSE IF ch = "\t" THEN TAB ELSE <<ch>>
             IN  { [SendBatch(s, site, batch) EXCEPT !.pc = "sendChar"] }
    ) : s \in {sim} }

\* _runJob(job) up to its first suspension, lines 245-252 and 305; reading
\* job.meta.batchMode of a null meta throws, which line 235 catches
RunJob(sim, job) ==
    UNION { (
    IF job.meta.null
    THEN JobEnd([s EXCEPT !.run = [NoRun EXCEPT !.job = job]], "job-error")
    ELSE LET useBatch == IfDefined(job.meta.batchMode, s.batchMode)
             s1 == [s EXCEPT !.run = [NoRun EXCEPT !.job = job, !.useBatch = useBatch,
                                        !.wpm = OrDefault(job.meta.wpm, s.wpm),
                                        !.i = 1]]
         IN  IF useBatch THEN Scan(s1) ELSE CharLoop(s1)
    ) : s \in {sim} }

\* a position of the smallest delayMs in q
EarliestDue(q) ==
    CHOOSE k \in 1..Len(q) : \A m \in 1..Len(q) : q[k].delayMs <= q[m].delayMs

Without(q, k) == SubSeq(q, 1, k - 1) \o SubSeq(q, k + 1, Len(q))

ShiftByDelay(q) == [job |-> q[EarliestDue(q)], rest |-> Without(q, EarliestDue(q))]

ShiftLast(q) == [job |-> q[Len(q)], rest |-> SubSeq(q, 1, Len(q) - 1)]

ShiftLosesNext(q) ==
    [job |-> Head(q), rest |-> IF Len(q) >= 2 THEN Tail(Tail(q)) ELSE Tail(q)]

\* this.queue.shift(), line 230
Shift(q) == [job |-> Head(q), rest |-> Tail(q)]

LeaveLoopSilently(sim) ==
    UNION { (
    { [s EXCEPT !.isRunning = FALSE, !.activeLoops = @ - 1, !.pc = "idle", !.run = NoRun] }
    ) : s \in {sim} }

\* lines 241-242: the loop is over
LeaveLoop(sim) ==
    UNION { (
    Notify([s EXCEPT !.isRunning = FALSE, !.activeLoops = @ - 1,
                     !.pc = "idle", !.run = NoRun], "idle", 0)
    ) : s \in {sim} }

LoopIgnoresPause(sim) ==
    UNION { (
    IF Len(s.queue) > 0
    THEN LET job == Shift(s.queue).job
         IN  RunJob([s EXCEPT !.queue = Shift(s.queue).rest, !.currentJob = Some(job),
                              !.startedJobs = Append(@, job.id)], job)
    ELSE LeaveLoop(s)
    ) : s \in {sim} }

\* the while loop of _ensureRunning, lines 229-242
Loop(sim) ==
    UNION { (
    IF Len(s.queue) > 0 /\ ~s.isPaused
    THEN LET job == Shift(s.queue).job
         IN  RunJob([s EXCEPT !.queue = Shift(s.queue).rest, !.currentJob = Some(job),
                              !.startedJobs = Append(@, job.id)], job)
    ELSE LeaveLoop(s)
    ) : s \in {sim} }

EnsureRunningWhilePaused(sim) ==
    UNION { (
    IF s.isRunning THEN { s }
    ELSE UNION { Loop(t) : t \in Notify([s EXCEPT !.isRunning = TRUE,
                                                  !.activeLoops = @ + 1], "started", 0) }
    ) : s \in {sim} }

EnsureRunningUnlessPaused(sim) ==
    UNION { (
    IF s.isPaused THEN { s }
    ELSE UNION { Loop(t) : t \in Notify([s EXCEPT !.isRunning = TRUE,
                                                  !.activeLoops = @ + 1], "started", 0) }
    ) : s \in {sim} }

EnsureRunningSilently(sim) ==
    UNION { (
    IF s.isRunning \/ s.isPaused THEN { s }
    ELSE Loop([s EXCEPT !.isRunning = TRUE, !.activeLoops = @ + 1])
    ) : s \in {sim} }

\* _ensureRunning(), lines 224-228
EnsureRunning(sim) ==
    UNION { (
    IF s.isRunning \/ s.isPaused THEN { s }
    ELSE UNION { Loop(t) : t \in Notify([s EXCEPT !.isRunning = TRUE,
                                                  !.activeLoops = @ + 1], "started", 0) }
    ) : s \in {sim} }

(* --------------------------- public operations ------------------------ *)
Call(op, arg, num, ret) == [op |-> op, arg |-> arg, num |-> num, ret |-> ret]

RunnerStep == Call("runner", JsUndefined, 0, "undefined")

\* the number of _sendBatch calls made for the job with this id
Delivered(log, id) == Cardinality({k \in 1..Len(log) : log[k].job = id})

\* constructor(options), lines 154-169
Construct(o) ==
    /\ queue = << >>
    /\ isRunning = FALSE
    /\ isPaused = FALSE
    /\ currentJob = Undefined
    /\ wpm = OrDefault(o.wpm, 60)
    /\ batchMode = IfDefined(o.batchMode, TRUE)
    /\ defaultDelay = IfDefined(o.defaultDelay, 0)
    /\ maxBatchSize = OrDefault(o.maxBatchSize, 12)
    /\ minBatchSize = OrDefault(o.minBatchSize, 3)
    /\ pc = "idle"
    /\ run = NoRun
    /\ nextId = 1
    /\ dispatched = << >>
    /\ startedJobs = << >>
    /\ finishedJobs = << >>
    /\ truncated = {}
    /\ dropped = {}
    /\ pauseMark = Undefined
    /\ interrupted = {}
    /\ stopMark = Undefined
    /\ phase = "closed"
    /\ pendingClipboard = << >>
    /\ activeLoops = 0
    /\ emitted = << >>
    /\ lastCall = Call("constructor", JsUndefined, 0, "undefined")

\* setWpm(wpm), lines 171-173; Number(n) || this.wpm takes this.wpm for 0
SetWpmValue(n, current) == Max(5, IF n = 0 THEN current ELSE n)

SetWpm(n) ==
    /\ wpm' = SetWpmValue(n, wpm)
    /\ emitted' = << >>
    /\ stopMark' = Undefined
    /\ lastCall' = Call("setWpm", JsUndefined, n, "undefined")
    /\ UNCHANGED << queue, isRunning, isPaused, currentJob, batchMode, defaultDelay,
                    env, pendingClipboard,
                    maxBatchSize, minBatchSize, pc, run, nextId, dispatched,
                    startedJobs, finishedJobs, truncated, dropped, pauseMark,
                    interrupted, phase, activeLoops,
                    listenerArmed >>

\* setBatchMode(enabled), lines 175-177
SetBatchMode(enabled) ==
    /\ batchMode' = enabled
    /\ emitted' = << >>
    /\ stopMark' = Undefined
    /\ lastCall' = Call("setBatchMode", JsUndefined, IF enabled THEN 1 ELSE 0, "undefined")
    /\ UNCHANGED << queue, isRunning, isPaused, currentJob, wpm, defaultDelay, env,
                    pendingClipboard,
                    maxBatchSize, minBatchSize, pc, run, nextId, dispatched,
                    startedJobs, finishedJobs, truncated, dropped, pauseMark,
                    interrupted, phase, activeLoops,
                    listenerArmed >>

RejectsEmptyStringOnly(text) == text.t = "string" /\ text.v = << >>

\* the guard of line 180
Rejects(text) == Falsy(text)

EnqueueTextBodyStartsFirst(s, text, delayMs, meta) ==
    IF Rejects(text) THEN { s }
    ELSE LET job == [id |-> s.nextId, text |-> StringOf(text),
                     delayMs |-> IfDefined(delayMs, defaultDelay), meta |-> meta]
         IN  UNION { Notify(t, "queued", job.id) :
                       t \in EnsureRunning([s EXCEPT !.queue = Append(@, job),
                                                     !.nextId = @ + 1]) }

\* enqueueText(text, delayMs, meta) on the simulator s, lines 179-186
EnqueueTextBody(s, text, delayMs, meta) ==
    IF Rejects(text) THEN { s }
    ELSE LET job == [id |-> s.nextId, text |-> StringOf(text),
                     delayMs |-> IfDefined(delayMs, defaultDelay), meta |-> meta]
         IN  UNION { EnsureRunning(t) :
                       t \in Notify([s EXCEPT !.queue = Append(@, job),
                                              !.nextId = @ + 1], "queued", job.id) }

\* enqueueText(text, delayMs, meta) called from outside, lines 179-186
EnqueueText(text, delayMs, meta) ==
    /\ \E s2 \in EnqueueTextBody(State, text, delayMs, meta) : Install(s2)
    /\ lastCall' = Call("enqueueText", text, 0, IF Rejects(text) THEN "null" ELSE "job")
    /\ UNCHANGED << defaultDelay, env, pendingClipboard >>

\* what the try block of lines 190-195 can do: hide the windows, find no
\* window manager or no such function, or throw
HideOutcomes == {"hidden", "absent", "threw"}

HideAllWindowsThrows(outcome) == IF outcome = "threw" THEN "rejected" ELSE "continues"

\* lines 190-195: the catch swallows whatever the try block throws
HideAllWindows(outcome) == "continues"

\* typeClipboard(delayMs) up to its await, lines 188-197.  The recorded call
\* carries 1 when hiding the windows threw.
TypeClipboard(delayMs) ==
    \E outcome \in HideOutcomes :
        /\ pendingClipboard' =
              IF HideAllWindows(outcome) = "rejected" THEN pendingClipboard
              ELSE Append(pendingClipboard,
                          [delayMs |-> IfDefined(delayMs, defaultDelay),
                           threw |-> outcome = "threw"])
        /\ emitted' = << >>
        /\ stopMark' = Undefined
        /\ lastCall' = Call("typeClipboard", JsUndefined,
                            IF outcome = "threw" THEN 1 ELSE 0,
                            IF HideAllWindows(outcome) = "rejected" THEN "rejected"
                            ELSE "pending")
        /\ UNCHANGED << queue, isRunning, isPaused, currentJob, wpm, batchMode,
                        defaultDelay, env, maxBatchSize, minBatchSize, pc, run, nextId,
                        dispatched, startedJobs, finishedJobs, truncated, dropped,
                        pauseMark, interrupted, phase, activeLoops,
                    listenerArmed >>

\* the guard of line 200
ReadIsEmpty(text) == Falsy(text)

\* the 250 ms timer of the oldest waiting typeClipboard call fires: lines
\* 198-202 with the text that the clipboard holds then
ClipboardRead ==
    /\ pendingClipboard # << >>
    /\ \E text \in {JsString(t) : t \in env.clipboard} :
        LET call == Head(pendingClipboard)
            threw == IF call.threw THEN 1 ELSE 0
        IN  /\ pendingClipboard' = Tail(pendingClipboard)
            /\ IF ReadIsEmpty(text)
               THEN /\ Install(State)
                    /\ lastCall' = Call("clipboardRead", text, threw, "false")
               ELSE /\ \E s2 \in EnqueueTextBody(State, text, Some(call.delayMs),
                                                  ClipboardMeta) : Install(s2)
                    /\ lastCall' = Call("clipboardRead", text, threw, "true")
            /\ UNCHANGED << defaultDelay, env >>

\* the job in flight has met a pause() or a stop()
Interrupts(s) ==
    [s EXCEPT !.interrupted = IF s.pc \in Suspended THEN @ \cup {s.run.job.id} ELSE @]

\* pause() on the simulator s, lines 205-208
PauseBody(s) ==
    Notify([Interrupts(s) EXCEPT
              !.isPaused = TRUE,
              !.pauseMark = IF s.pc \in Suspended /\ s.pauseMark = Undefined
                            THEN Some([job |-> s.run.job.id,
                                       count |-> Delivered(s.dispatched, s.run.job.id)])
                            ELSE @], "paused", 0)

\* pause() called from outside
Pause ==
    /\ \E s2 \in PauseBody(State) : Install(s2)
    /\ lastCall' = Call("pause", JsUndefined, 0, "undefined")
    /\ UNCHANGED << defaultDelay, env, pendingClipboard >>

ResumeBodyOnlyClears(s) ==
    IF ~s.isPaused THEN { s }
    ELSE Notify([s EXCEPT !.isPaused = FALSE, !.pauseMark = Undefined], "resumed", 0)

ResumeBodyRestarts(s) ==
    IF ~s.isPaused THEN { s }
    ELSE UNION { Loop(u) :
                   u \in UNION { Notify([t EXCEPT !.isRunning = TRUE,
                                                  !.activeLoops = @ + 1], "started", 0) :
                                   t \in Notify([s EXCEPT !.isPaused = FALSE,
                                                          !.pauseMark = Undefined],
                                                "resumed", 0) } }

\* resume() on the simulator s, lines 210-215
ResumeBody(s) ==
    IF ~s.isPaused THEN { s }
    ELSE UNION { EnsureRunning(t) :
                   t \in Notify([s EXCEPT !.isPaused = FALSE, !.pauseMark = Undefined],
                                "resumed", 0) }

\* resume() called from outside
Resume ==
    /\ \E s2 \in ResumeBody(State) : Install(s2)
    /\ lastCall' = Call("resume", JsUndefined, 0, "undefined")
    /\ UNCHANGED << defaultDelay, env, pendingClipboard >>

StopStaysPaused(s) == [s EXCEPT !.queue = << >>, !.currentJob = Undefined]

StopKeepsQueue(s) == [s EXCEPT !.isPaused = FALSE, !.currentJob = Undefined]

StopResetsRunning(s) ==
    [s EXCEPT !.queue = << >>, !.isPaused = FALSE, !.currentJob = Undefined,
              !.isRunning = FALSE]

StopCancelsJob(s) ==
    [s EXCEPT !.queue = << >>, !.isPaused = FALSE, !.currentJob = Undefined,
              !.isRunning = FALSE, !.pc = "idle", !.run = NoRun]

\* the fields stop() assigns, lines 218-220
StopFields(s) == [s EXCEPT !.queue = << >>, !.isPaused = FALSE, !.currentJob = Undefined]

\* stop() on the simulator s, lines 217-222
StopBody(s) ==
    Notify([StopFields(Interrupts(s)) EXCEPT
              !.dropped = @ \cup {s.queue[k].id : k \in 1..Len(s.queue)},
              !.stopMark = IF s.pc \in Suspended
                           THEN Some([job |-> s.run.job.id,
                                      afterPause |-> s.pauseMark # Undefined])
                           ELSE @,
              !.pauseMark = Undefined], "stopped", 0)

\* stop() called from outside
Stop ==
    /\ \E s2 \in StopBody(State) : Install(s2)
    /\ lastCall' = Call("stop", JsUndefined, 0, "undefined")
    /\ UNCHANGED << defaultDelay, env, pendingClipboard >>

\* the text a listener enqueues
ListenerText == JsString(<<"a">>)

\* the listener registered with once(event, ...) calls one operation of the
\* simulator and returns
ListenerCall(s, op) ==
    CASE op = "enqueueText" -> EnqueueTextBody(s, ListenerText, Undefined, EmptyMeta)
      [] op = "pause" -> PauseBody(s)
      [] op = "resume" -> ResumeBody(s)
      [] op = "stop" -> StopBody(s)

\* this.emit(name, ...): the event is emitted and the listener registered for
\* it with once(), if there is one and this is the first such event, runs to
\* its end
Notify(sim, name, id) ==
    UNION { (
    IF /\ s.env.listener # Undefined
       /\ s.env.listener[1].event = name
       /\ s.listenerArmed
    THEN ListenerCall([Emit(s, name, id) EXCEPT !.listenerArmed = FALSE],
                      s.env.listener[1].op)
    ELSE { Emit(s, name, id) }
    ) : s \in {sim} }

(* ----------------------- the runner's continuations ------------------- *)
Resumes(next) ==
    /\ \E s2 \in next : Install(s2)
    /\ lastCall' = RunnerStep
    /\ UNCHANGED << defaultDelay, env, pendingClipboard >>

ExecErrorRejects(err) == IF err THEN "rejected" ELSE "resolved"

\* the callback of exec, lines 344-351: an error is logged and the promise of
\* _sendBatch resolves all the same
ExecCallback(err) == "resolved"

\* exec has ended, with or without an error
ExecDone(s, err) == [s EXCEPT !.dispatched[Len(s.dispatched)].err = err]

\* the awaited _sendBatch settles and _runJob goes on with `resolved`.  A
\* rejection would leave _runJob as an exception, to the catch of line 235.
Settled(s, err, resolved) ==
    IF ExecCallback(err) = "rejected" THEN JobEnd(s, "job-error") ELSE resolved

\* the delay that starts is recorded with the instruction it follows
Waits(s, wait) == [s EXCEPT !.dispatched[Len(s.dispatched)].wait = wait]

PacedWaitAtFullRate(rate, n, r, extraPause) ==
    [wpm |-> rate, base |-> (60000 * n * 100) \div avgCharsPerWord,
     jitter |-> ((((60000 * n * 100) \div avgCharsPerWord) \div 100) * 8 * r) \div 100,
     extra |-> extraPause, settle |-> 0]

\* lines 260-262 for a batch of n characters at the rate of the job, r the
\* value of Math.random() in hundredths: timePerChar (line 250) * n * 0.85, its
\* share r * 0.08, extraPause.  The rate is positive wherever a simulator is
\* constructed here, so Math.max(0, .) of line 262 leaves the sum as it is.
PacedWait(rate, n, r, extraPause) ==
    [wpm |-> rate, base |-> (60000 * n * 85) \div avgCharsPerWord,
     jitter |-> ((((60000 * n * 85) \div avgCharsPerWord) \div 100) * 8 * r) \div 100,
     extra |-> extraPause, settle |-> 0]

SettleWaitShort(token) == [NoWait EXCEPT !.settle = 40]

\* lines 274 and 280
SettleWait(token) == [NoWait EXCEPT !.settle = IF token = ENTER THEN 80 ELSE 40]

JobRateNow(s) == s.wpm

\* timePerChar, line 250: computed once from the local wpm of line 248
JobRate(s) == s.run.wpm

\* line 257 resolves: progress is emitted and the paced delay starts (258-262)
SendDone ==
    /\ pc = "send"
    /\ \E err \in env.execFails, r \in env.random :
        LET s == ExecDone(State, err)
        IN  Resumes(Settled(s, err,
                { [Waits(t, PacedWait(JobRate(s), Len(s.run.batch), r, s.run.extraPause))
                     EXCEPT !.pc = "wait"] : t \in Notify(s, "progress", s.run.job.id) }))

WaitDoneKeepsBatch ==
    /\ pc = "wait"
    /\ Resumes(Continue(State))

\* line 262 resolves: the batch is cleared and flushBatch returns
WaitDone ==
    /\ pc = "wait"
    /\ Resumes(Continue([State EXCEPT !.run.batch = << >>]))

\* line 273 or 279 resolves: the settle delay starts
TokenDone ==
    /\ pc = "sendCtl"
    /\ \E err \in env.execFails :
        LET s == ExecDone(State, err)
        IN  Resumes(Settled(s, err,
                { [Waits(s, SettleWait(s.run.ctl)) EXCEPT !.pc = "settle"] }))

\* line 274 or 280 resolves: continue
SettleDone ==
    /\ pc = "settle"
    /\ Resumes(Scan([State EXCEPT !.run.i = @ + 1, !.run.ctl = << >>]))

\* line 311, 313 or 315 resolves: the delay of line 319 starts
CharSendDone ==
    /\ pc = "sendChar"
    /\ \E err \in env.execFails, r \in env.random :
        LET s == ExecDone(State, err)
        IN  Resumes(Settled(s, err,
                { [Waits(s, PacedWait(JobRate(s), 1, r, 0)) EXCEPT !.pc = "waitChar"] }))

\* line 319 resolves: progress is emitted and the loop goes on
CharWaitDone ==
    /\ pc = "waitChar"
    /\ Resumes(UNION { CharLoop([t EXCEPT !.run.i = @ + 1]) :
                         t \in Notify(State, "progress", run.job.id) })

Runner == SendDone \/ WaitDone \/ TokenDone \/ SettleDone \/ CharSendDone \/ CharWaitDone

(* --------------------------- specifications --------------------------- *)
NoOptions == [wpm |-> Undefined, batchMode |-> Undefined, defaultDelay |-> Undefined,
              maxBatchSize |-> Undefined, minBatchSize |-> Undefined]

\* main.js line 35 and typing-test.js line 2
EngineOptions == { NoOptions }

PacerOptions ==
    { NoOptions,
      [NoOptions EXCEPT !.maxBatchSize = Some(2)],
      [NoOptions EXCEPT !.maxBatchSize = Some(2), !.minBatchSize = Some(1)],
      [NoOptions EXCEPT !.maxBatchSize = Some(1), !.minBatchSize = Some(1)] }

\* the surroundings of the engine specifications: Math.random() gives no
\* jitter, exec succeeds, the clipboard is not read, no listener calls back
QuietEnv == [random |-> {0}, execFails |-> {FALSE}, clipboard |-> {},
             listener |-> Undefined]

Init == env = QuietEnv /\ listenerArmed = FALSE /\ \E o \in EngineOptions : Construct(o)

InitPacer == env = QuietEnv /\ listenerArmed = FALSE /\ \E o \in PacerOptions : Construct(o)

Enqueue ==
    \E j \in EngineJobs, delayMs \in DelayInputs :
        /\ nextId <= MaxJobs
        /\ EnqueueText(JsString(j.text), delayMs, j.meta)

EnqueueEmpty ==
    \E text \in EmptyInputs, rest \in EmptyCallInputs :
        EnqueueText(text, rest.delayMs, rest.meta)

EnqueueFirst ==
    \E j \in EngineJobs :
        /\ nextId = 1
        /\ EnqueueText(JsString(j.text), Undefined, j.meta)

EnqueueOne ==
    \E text \in {JsString(t) : t \in Texts} :
        /\ nextId = 1
        /\ EnqueueText(text, Undefined, EmptyMeta)

EnqueueOneChar ==
    \E text \in {JsString(t) : t \in CharTexts} :
        /\ nextId = 1
        /\ EnqueueText(text, Undefined, CharMeta)

\* the clipboard is empty, or holds a line, or a line and its newline
ClipboardEnv == [QuietEnv EXCEPT !.clipboard = {<< >>, <<"a">>, <<"a", "\n">>}]

InitClipboard ==
    env = ClipboardEnv /\ listenerArmed = FALSE /\ \E o \in EngineOptions : Construct(o)

\* main.js lines 149 and 1449: typeClipboard()
CallTypeClipboard ==
    /\ nextId + Len(pendingClipboard) <= MaxClipboardJobs
    /\ TypeClipboard(Undefined)

EnqueueCharJob ==
    /\ nextId = 1
    /\ EnqueueText(JsString(<<"a">>), Undefined, CharMeta)

\* Math.random() at its least, in the middle and at its most
TimingEnv == [QuietEnv EXCEPT !.random = {0, 50, 99}]

TimingOptions ==
    { NoOptions,
      [NoOptions EXCEPT !.wpm = Some(90)],
      [NoOptions EXCEPT !.maxBatchSize = Some(3)],
      [NoOptions EXCEPT !.maxBatchSize = Some(5), !.minBatchSize = Some(2)] }

InitTiming == env = TimingEnv /\ listenerArmed = FALSE /\ \E o \in TimingOptions : Construct(o)

HiText == <<"H", "i", ".", "\n">>

TimingTexts ==
    { HiText, <<"a", "a", "a", "a", "a">>, <<"a", ",", "\t", "a">>,
      <<"a", "\t", "!">>, <<"?", ";", ":">> }

EnqueueTimed ==
    \E text \in TimingTexts :
        /\ nextId = 1
        /\ EnqueueText(JsString(text), Undefined, EmptyMeta)

\* exec may fail on any call
AdapterEnv == [QuietEnv EXCEPT !.execFails = BOOLEAN]

InitAdapter == env = AdapterEnv /\ listenerArmed = FALSE /\ \E o \in EngineOptions : Construct(o)

BraceAlphabet == {"{", "}", "a"}

\* texts with braces, texts that spell a token, a quote, a line break
AdapterTexts ==
    (SeqsUpTo(BraceAlphabet, MaxBraceLen) \ {<< >>})
        \cup { ENTER, TAB, <<"'", "a">>, <<"a", "\n", "a">> }

EnqueueKeys ==
    \E text \in AdapterTexts :
        /\ nextId = 1
        /\ EnqueueText(JsString(text), Undefined, EmptyMeta)

EnqueueKeysChar ==
    \E text \in { <<"{">>, <<"a", "\n">> } :
        /\ nextId = 1
        /\ EnqueueText(JsString(text), Undefined, CharMeta)

\* the events of the simulator and the operations a listener may call
ListenerEvents ==
    {"queued", "started", "progress", "job-done", "job-error", "paused", "resumed",
     "stopped", "idle"}

ListenerOps == {"enqueueText", "pause", "resume", "stop"}

\* one listener is registered with once(), for one event, and calls one operation
ListenerEnvs ==
    { [QuietEnv EXCEPT !.clipboard = {<<"a">>},
                       !.listener = Some([event |-> e, op |-> op])] :
        e \in ListenerEvents, op \in ListenerOps }

InitListener ==
    /\ env \in ListenerEnvs
    /\ listenerArmed = TRUE
    /\ \E o \in EngineOptions : Construct(o)

\* a text of a batch and a token, a job whose meta is null, and a job
\* typed character by character
ListenerJobs ==
    { [text |-> <<"a", "\n">>, meta |-> EmptyMeta],
      [text |-> <<"a">>, meta |-> NullMeta],
      [text |-> <<"a">>, meta |-> CharMeta] }

EnqueueListened ==
    \E j \in ListenerJobs :
        /\ nextId <= MaxListenerJobs
        /\ EnqueueText(JsString(j.text), Undefined, j.meta)

CallTypeClipboardListened ==
    /\ nextId <= MaxListenerJobs
    /\ pendingClipboard = << >>
    /\ TypeClipboard(Undefined)

\* what the producers enqueue: a text of a batch and a token, a job whose
\* meta is null, and a job typed character by character
ProducerJobs == ListenerJobs

Produce ==
    \E j \in ProducerJobs :
        /\ nextId <= MaxProducerJobs
        /\ EnqueueText(JsString(j.text), Undefined, j.meta)

\* the simulator is constructed with a rate of its own, or without
RateOptions == { NoOptions, [NoOptions EXCEPT !.wpm = Some(3)] }

\* the rates setWpm is called with
RateInputs == { 3, 90 }

InitRate == env = QuietEnv /\ listenerArmed = FALSE /\ \E o \in RateOptions : Construct(o)

\* jobs of three instructions in batch mode and two in character mode, with
\* and without a rate or a mode of their own in the metadata
RateJobs ==
    { [text |-> <<".", "a", "\n">>, meta |-> EmptyMeta],
      [text |-> <<".", "a", "\n">>, meta |-> [EmptyMeta EXCEPT !.wpm = Some(2)]],
      [text |-> <<"a", "\t">>, meta |-> [EmptyMeta EXCEPT !.batchMode = Some(TRUE),
                                                           !.wpm = Some(120)]],
      [text |-> <<"a", "b">>, meta |-> CharMeta] }

EnqueueRated ==
    \E j \in RateJobs :
        /\ nextId <= MaxRateJobs
        /\ EnqueueText(JsString(j.text), Undefined, j.meta)

ProduceLive ==
    \E j \in ProducerJobs :
        /\ nextId <= MaxLiveJobs
        /\ EnqueueText(JsString(j.text), Undefined, j.meta)

Next ==
    \/ Enqueue
    \/ EnqueueEmpty
    \/ Pause
    \/ Resume
    \/ Stop
    \/ Runner

NextPacer ==
    \/ EnqueueOne
    \/ EnqueueOneChar
    \/ Pause
    \/ Resume
    \/ Stop
    \/ Runner

NextConfig ==
    \/ \E n \in WpmInputs : SetWpm(n)
    \/ \E b \in BOOLEAN : SetBatchMode(b)
    \/ EnqueueFirst
    \/ Runner

NextClipboard ==
    \/ CallTypeClipboard
    \/ ClipboardRead
    \/ EnqueueCharJob
    \/ Pause
    \/ Resume
    \/ Stop
    \/ Runner

NextTiming ==
    \/ EnqueueTimed
    \/ EnqueueCharJob
    \/ Pause
    \/ Resume
    \/ Stop
    \/ Runner

NextAdapter ==
    \/ EnqueueKeys
    \/ EnqueueKeysChar
    \/ Pause
    \/ Resume
    \/ Stop
    \/ Runner

NextListener ==
    \/ EnqueueListened
    \/ CallTypeClipboardListened
    \/ ClipboardRead
    \/ Pause
    \/ Resume
    \/ Stop
    \/ Runner

NextProducers ==
    \/ Produce
    \/ Pause
    \/ Resume
    \/ Stop
    \/ Runner

NextRate ==
    \/ \E n \in RateInputs : SetWpm(n)
    \/ \E b \in BOOLEAN : SetBatchMode(b)
    \/ EnqueueRated
    \/ Runner

Spec == Init /\ [][Next]_vars

SpecRate == InitRate /\ [][NextRate]_vars

SpecProducers == Init /\ [][NextProducers]_vars

NextLive ==
    \/ ProduceLive
    \/ Pause
    \/ Resume
    \/ Stop
    \/ Runner

\* every exec calls back (line 344, with its timeout) and every timer fires:
\* a suspended runner goes on
SpecLive == Init /\ [][NextLive]_vars /\ WF_vars(Runner)

SpecListener == InitListener /\ [][NextListener]_vars

SpecAdapter == InitAdapter /\ [][NextAdapter]_vars

SpecTiming == InitTiming /\ [][NextTiming]_vars

SpecClipboard == InitClipboard /\ [][NextClipboard]_vars

SpecConfig == Init /\ [][NextConfig]_vars

SpecPacer == InitPacer /\ [][NextPacer]_vars

(* -------------------------------- claims ------------------------------ *)
\* the payloads flushBatch handed to _sendBatch for the job, concatenated
RECURSIVE LiteralText(_, _)
LiteralText(log, id) ==
    IF log = << >> THEN << >>
    ELSE IF Head(log).job = id /\ Head(log).site = "literal"
         THEN Head(log).payload \o LiteralText(Tail(log), id)
         ELSE LiteralText(Tail(log), id)

IsControlChar(c) == c \in {"\n", "\t"}
IsLiteralChar(c) == ~IsControlChar(c)

WithoutControlChars(text) == SelectSeq(text, IsLiteralChar)

\* the jobs reported job-done that ran in batch mode with no pause() or stop()
\* while they were in flight
UninterruptedBatchJobs ==
    { f \in {finishedJobs[k] : k \in 1..Len(finishedJobs)} :
        f.useBatch /\ f.kind = "job-done" /\ f.job.id \notin interrupted }

\* C1 as stated: for every finished batch-mode job that was never paused or
\* stopped, the literal payloads concatenated in dispatch order are the text.
C1_LiteralsAreText ==
    \A f \in UninterruptedBatchJobs : LiteralText(dispatched, f.job.id) = f.job.text

\* C1 amended: for every finished batch-mode job that was never paused or
\* stopped, the literal payloads concatenated in dispatch order are the text
\* with its newline and tab characters removed.
C1_LiteralsAreTextWithoutControlChars ==
    \A f \in UninterruptedBatchJobs :
        LiteralText(dispatched, f.job.id) = WithoutControlChars(f.job.text)

C1_Witness ==
    \E f \in UninterruptedBatchJobs :
        /\ Len(f.job.text) = MaxTextLen
        /\ \E k \in 1..Len(f.job.text) : IsControlChar(f.job.text[k])
        /\ Len(LiteralText(dispatched, f.job.id)) >= 2
        /\ \E k \in 1..Len(dispatched) : Len(dispatched[k].payload) >= 2

\* C5: in batch mode every literal payload handed to the injector is at most
\* maxBatchSize characters long.
C5_BatchWithinMax ==
    \A k \in 1..Len(dispatched) :
        (dispatched[k].useBatch /\ dispatched[k].site = "literal")
            => Len(dispatched[k].payload) <= maxBatchSize

C5_Witness ==
    /\ maxBatchSize = 2
    /\ pc = "idle"
    /\ \E f \in UninterruptedBatchJobs : Len(WithoutControlChars(f.job.text)) > maxBatchSize
    /\ \E k \in 1..Len(dispatched) :
        /\ dispatched[k].useBatch
        /\ dispatched[k].site = "literal"
        /\ Len(dispatched[k].payload) = maxBatchSize

\* C6 as stated: once pause() has been called after k instructions of the job
\* in flight, and until a resume() or stop(), the job has exactly k
\* instructions dispatched.
C6_PauseStopsAtK ==
    pauseMark # Undefined
        => Delivered(dispatched, pauseMark[1].job) = pauseMark[1].count

\* C4 as stated: after setWpm(n) the rate is 5 when n < 5 and n otherwise.
C4_SetWpmClamps ==
    lastCall.op = "setWpm"
        => wpm = (IF lastCall.num < 5 THEN 5 ELSE lastCall.num)

Ids(jobs) == [k \in 1..Len(jobs) |-> jobs[k].id]

Increasing(ids) == \A k \in 1..Len(ids) - 1 : ids[k] < ids[k + 1]

Event(name, id) == [name |-> name, job |-> id]

EngineFields ==
    << queue, isRunning, isPaused, currentJob, wpm, batchMode, defaultDelay,
       maxBatchSize, minBatchSize >>

RunnerFields == << pc, run, dispatched, startedJobs, finishedJobs, truncated >>

\* C2: the ids enqueueText hands out grow with each accepted job; the queue
\* holds its jobs in that order, the runner starts jobs in that order, and
\* job-done/job-error are reported in the order the jobs were started.
C2_FifoOrder ==
    /\ Increasing(Ids(queue))
    /\ Increasing(startedJobs)
    /\ \A k \in 1..Len(queue) : \A m \in 1..Len(startedJobs) : startedJobs[m] < queue[k].id
    /\ Len(finishedJobs) <= Len(startedJobs)
    /\ \A k \in 1..Len(finishedJobs) : finishedJobs[k].job.id = startedJobs[k]

C2_Witness ==
    /\ Len(finishedJobs) >= 2
    /\ finishedJobs[1].job.delayMs > finishedJobs[2].job.delayMs
    /\ finishedJobs[1].kind = "job-done"
    /\ Len(finishedJobs[1].job.text) > 1

\* C3: a step that is enqueueText("" | null | undefined) returns null, emits
\* no event and leaves the engine, the runner and the job counter as they were.
C3_EmptyEnqueueNoEffect ==
    [][(lastCall'.op = "enqueueText" /\ lastCall'.arg \in EmptyInputs)
        => /\ lastCall'.ret = "null"
           /\ emitted' = << >>
           /\ UNCHANGED << EngineFields, RunnerFields, nextId >>]_vars

C3_Witness ==
    /\ lastCall.op = "enqueueText"
    /\ lastCall.arg = JsNull
    /\ lastCall.ret = "null"
    /\ ~isRunning
    /\ ~isPaused
    /\ Len(finishedJobs) > 0

\* C7: the step in which the runner leaves a job's loop by the pause break
\* reports that job with job-done and no job-error, then emits idle and ends
\* the loop, with the queue and the list of started jobs as they were.
C7_TruncatedJobIsDone ==
    [][\A id \in truncated' \ truncated :
        /\ Len(emitted') >= 2
        /\ emitted'[Len(emitted') - 1] = Event("job-done", id)
        /\ emitted'[Len(emitted')] = Event("idle", 0)
        /\ \A k \in 1..Len(emitted') : emitted'[k].name # "job-error"
        /\ Len(finishedJobs') = Len(finishedJobs) + 1
        /\ finishedJobs'[Len(finishedJobs')].job.id = id
        /\ finishedJobs'[Len(finishedJobs')].kind = "job-done"
        /\ queue' = queue
        /\ startedJobs' = startedJobs
        /\ ~isRunning'
        /\ pc' = "idle"]_vars

C7_Witness ==
    /\ truncated # {}
    /\ lastCall = RunnerStep
    /\ pc = "idle"
    /\ isPaused
    /\ Len(queue) > 0
    /\ emitted # << >>

\* C8: a job truncated by pause is never in the queue or in flight again and
\* gets no further dispatch, and a resume() that starts the runner starts it
\* on the job at the head of the queue.
C8_ResumeSkipsTruncated ==
    [][/\ \A id \in truncated :
            /\ Delivered(dispatched', id) = Delivered(dispatched, id)
            /\ \A k \in 1..Len(queue') : queue'[k].id # id
            /\ run'.job.id # id
            /\ currentJob' = Undefined \/ currentJob'[1].id # id
       /\ (lastCall'.op = "resume" /\ isPaused /\ ~isRunning /\ Len(queue) > 0)
            => /\ Len(startedJobs') > Len(startedJobs)
               /\ startedJobs'[Len(startedJobs) + 1] = Head(queue).id
               /\ emitted'[1] = Event("resumed", 0)
               /\ emitted'[2] = Event("started", 0)]_vars

C8_Witness ==
    /\ lastCall.op = "resume"
    /\ truncated # {}
    /\ pc \in Suspended
    /\ run.job.id \notin truncated
    /\ Len(startedJobs) >= 2
    /\ emitted[2] = Event("started", 0)

\* C9: a job that was in the queue when stop() was called is never started,
\* dispatched or reported and is not in the queue again; and a resume() that
\* follows a stop() changes nothing and emits nothing.
C9_StopDropsQueue ==
    [][/\ \A id \in dropped' :
            /\ \A k \in 1..Len(startedJobs') : startedJobs'[k] # id
            /\ Delivered(dispatched', id) = 0
            /\ \A k \in 1..Len(finishedJobs') : finishedJobs'[k].job.id # id
            /\ \A k \in 1..Len(queue') : queue'[k].id # id
            /\ run'.job.id # id
            /\ \A k \in 1..Len(emitted') : emitted'[k].job # id
       /\ (lastCall.op = "stop" /\ lastCall'.op = "resume")
            => /\ emitted' = << >>
               /\ UNCHANGED << EngineFields, RunnerFields, nextId >>]_vars

C9_Witness ==
    /\ lastCall.op = "resume"
    /\ emitted = << >>
    /\ queue = << >>
    /\ pc \in Suspended
    /\ \E id \in dropped : id > run.job.id
    /\ ~isPaused

\* C10: a step that is stop() leaves the queue empty, the current-job
\* reference null and the pause flag false, emits the one event stopped, and
\* leaves the running flag, the configuration and the runner as they were.
C10_StopFrame ==
    [][lastCall'.op = "stop"
        => /\ queue' = << >>
           /\ currentJob' = Undefined
           /\ ~isPaused'
           /\ emitted' = << Event("stopped", 0) >>
           /\ UNCHANGED << isRunning, wpm, batchMode, defaultDelay, maxBatchSize,
                           minBatchSize, RunnerFields, nextId >>]_vars

C10_Witness ==
    /\ lastCall.op = "stop"
    /\ isRunning
    /\ pc = "send"
    /\ run.job.id \in interrupted
    /\ dropped # {}
    /\ currentJob = Undefined

\* the job the step has enqueued, wherever the runner has put it since
EnqueuedJob ==
    IF queue' # << >> /\ queue'[Len(queue')].id = nextId THEN queue'[Len(queue')]
    ELSE run'.job

\* C11: a typeClipboard call always reaches its clipboard read, whether or not
\* hiding the windows threw; the read returns false and leaves the simulator as
\* it was exactly when the text read is empty, and otherwise returns true having
\* enqueued one job, of that text, with metadata source "clipboard"
C11_ClipboardOutcome ==
    [][ /\ lastCall'.op = "typeClipboard" =>
            /\ lastCall'.ret = "pending"
            /\ Len(pendingClipboard') = Len(pendingClipboard) + 1
            /\ UNCHANGED << EngineFields, RunnerFields, nextId >>
        /\ lastCall'.op = "clipboardRead" =>
            /\ lastCall'.ret = (IF lastCall'.arg.v = << >> THEN "false" ELSE "true")
            /\ lastCall'.ret = "false" =>
                   UNCHANGED << EngineFields, RunnerFields, nextId >>
            /\ lastCall'.ret = "true" =>
                   /\ nextId' = nextId + 1
                   /\ Len(SelectSeq(emitted', LAMBDA e : e.name = "queued")) = 1
                   /\ emitted'[1] = Event("queued", nextId)
                   /\ EnqueuedJob.id = nextId
                   /\ EnqueuedJob.text = lastCall'.arg.v
                   /\ EnqueuedJob.meta.source = Some("clipboard")
                   /\ Len(queue') + (IF pc' \in Suspended /\ pc \notin Suspended
                                     THEN 1 ELSE 0) = Len(queue) + 1]_vars

\* a call whose window hiding threw has read a text and its job is being typed
C11_Witness ==
    /\ lastCall.op = "clipboardRead"
    /\ lastCall.num = 1
    /\ lastCall.ret = "true"
    /\ pc \in Suspended
    /\ run.job.meta.source = Some("clipboard")

\* the instructions dispatched for the job with this id, oldest first
JobLog(id) == SelectSeq(dispatched, LAMBDA d : d.job = id)

\* the finished batch-mode jobs of the text "Hi.\n" that no pause() or stop()
\* has met
HiJobs == { f \in UninterruptedBatchJobs : f.job.text = HiText }

\* C12 as stated: with maxBatchSize at least 3 the job of "Hi.\n" has, when it
\* is reported done, dispatched the literal "Hi" with an extra pause of 260 ms
\* and then ENTER with a settle delay of 80 ms.
C12_HiThenEnter ==
    \A f \in HiJobs :
        maxBatchSize >= 3 =>
            LET log == JobLog(f.job.id)
            IN  /\ Len(log) = 2
                /\ log[1].site = "literal" /\ log[1].payload = <<"H", "i">>
                /\ log[1].wait.extra = 260
                /\ log[2].site = "control" /\ log[2].payload = ENTER
                /\ log[2].wait.settle = 80

\* C12 amended: with maxBatchSize at least 3 the job of "Hi.\n" has, when it is
\* reported done, dispatched literals that spell "Hi." (one literal "Hi." when
\* minBatchSize is at least 3), the literal that ends in '.' with an extra pause
\* of 260 ms and any other with none, and last ENTER with a settle delay of 80 ms.
C12_HiDotThenEnter ==
    \A f \in HiJobs :
        maxBatchSize >= 3 =>
            LET log == JobLog(f.job.id)
                n == Len(log)
            IN  /\ n >= 2
                /\ LiteralText(dispatched, f.job.id) = <<"H", "i", ".">>
                /\ \A k \in 1..(n - 1) :
                       /\ log[k].site = "literal"
                       /\ log[k].wait.extra = (IF k = n - 1 THEN 260 ELSE 0)
                       /\ log[k].wait.settle = 0
                /\ log[n].site = "control" /\ log[n].payload = ENTER
                /\ log[n].wait = [NoWait EXCEPT !.settle = 80]
                /\ minBatchSize >= 3 => n = 2

\* the job of "Hi.\n" is done under the default sizes, and under sizes that
\* let the literal be split
C12_Witness ==
    \E f \in HiJobs :
        /\ maxBatchSize >= 3
        /\ Len(JobLog(f.job.id)) = (IF minBatchSize >= 3 THEN 2 ELSE 3)
        /\ emitted # << >>
        /\ emitted[1] = Event("job-done", f.job.id)

\* the literal flushes whose paced delay has started
PacedFlushes ==
    { k \in 1..Len(dispatched) :
        /\ dispatched[k].useBatch
        /\ dispatched[k].site = "literal"
        /\ dispatched[k].wait # NoWait }

\* C13: the delay after a flushed literal batch of n characters is, times
\* 100 * wpm for exactness, 60000 / 5 * n * 0.85 * 100 plus a jitter between 0
\* and 8 % of that, plus the extra pause (260 ms after '.', '!' or '?', else 0)
\* and nothing else; at 60 WPM five characters with no extra pause wait between
\* 850 and 918 ms.
C13_PacedDelay ==
    \A k \in PacedFlushes :
        LET d == dispatched[k]
            n == Len(d.payload)
            w == d.wait
        IN  /\ w.wpm = wpm
            /\ w.base * avgCharsPerWord = 60000 * n * 85
            /\ 0 <= w.jitter /\ w.jitter * 100 <= 8 * w.base
            /\ w.extra = (IF IsSentenceEnd(d.payload[n]) THEN 260 ELSE 0)
            /\ w.settle = 0
            /\ (w.wpm = 60 /\ n = 5 /\ w.extra = 0) =>
                   /\ 850 * 100 * 60 <= w.base + w.jitter
                   /\ w.base + w.jitter <= 918 * 100 * 60

\* a five-character batch waits at 60 WPM with the most jitter there is
C13_Witness ==
    \E k \in PacedFlushes :
        /\ Len(dispatched[k].payload) = 5
        /\ dispatched[k].wait.wpm = 60
        /\ dispatched[k].wait.jitter > 0
        /\ dispatched[k].wait.base + dispatched[k].wait.jitter > 917 * 100 * 60

\* the batch with each of its braces replaced by the three characters that
\* stand for it, and nothing else changed
EscapedOnce(batch) ==
    LET esc(c) == IF c = "{" THEN OpenBrace ELSE IF c = "}" THEN CloseBrace ELSE << c >>
        F[k \in 0..Len(batch)] == IF k = 0 THEN << >> ELSE F[k - 1] \o esc(batch[k])
    IN  F[Len(batch)]

\* the literal batches handed to the injector, in either mode
Literals == { k \in 1..Len(dispatched) : dispatched[k].site = "literal" }

\* C14: what SendKeys receives for a literal batch is the batch with '{' as
\* '{{}' and '}' as '{}}', no character of an escape escaped again.
C14_EscapedOnce ==
    \A k \in Literals :
        ~IsToken(dispatched[k].payload) =>
            dispatched[k].keys = EscapedOnce(dispatched[k].payload)

\* C15: a literal batch is never sent as the Enter or Tab key: it reaches
\* SendKeys escaped even when it spells a token, and SendKeys receives
\* {ENTER} or {TAB} only for a newline or a tab of the text.
C15_LiteralNeverToken ==
    \A k \in 1..Len(dispatched) :
        /\ IsToken(dispatched[k].keys) => dispatched[k].site = "control"
        /\ (dispatched[k].site = "literal" /\ IsToken(dispatched[k].payload)) =>
               dispatched[k].keys = EscapedOnce(dispatched[k].payload)

\* the characters of the text that the instructions of a log stand for
RECURSIVE TextOf(_)
TextOf(log) ==
    IF log = << >> THEN << >>
    ELSE (IF Head(log).site = "literal" THEN Head(log).payload
          ELSE IF Head(log).payload = ENTER THEN <<"\n">> ELSE <<"\t">>)
         \o TextOf(Tail(log))

FinishedJobs == { finishedJobs[k] : k \in 1..Len(finishedJobs) }

\* C16: a failure of the injection never ends a job in job-error, and a job
\* that no pause() or stop() has met has, when it is reported, dispatched the
\* instructions of its whole text, each once and in order, whichever of them
\* failed.
C16_FailureDoesNotStopJob ==
    \A f \in FinishedJobs :
        /\ ~f.job.meta.null => f.kind = "job-done"
        /\ (~f.job.meta.null /\ f.job.id \notin interrupted) =>
               TextOf(JobLog(f.job.id)) = f.job.text

\* a job is done whose first instruction failed and was followed by another
C16_Witness ==
    \E f \in FinishedJobs :
        /\ f.kind = "job-done"
        /\ f.job.id \notin interrupted
        /\ Len(JobLog(f.job.id)) >= 2
        /\ JobLog(f.job.id)[1].err
        /\ ~JobLog(f.job.id)[2].err

\* how often the job with this id was started, and reported
Starts(started, id) == Cardinality({ n \in 1..Len(started) : started[n] = id })
Reports(finished, id) ==
    Cardinality({ n \in 1..Len(finished) : finished[n].job.id = id })

\* C17: the runner is flagged running only while a continuation of it is
\* pending; and the step that reports job-error for a job leaves that job
\* started once, reported once and out of the queue, with either a later job in
\* flight or the queue empty and the runner idle.
C17_ErrorDoesNotStopRunner ==
    /\ [](isRunning <=> pc \in Suspended)
    /\ [][\A k \in 1..Len(emitted') :
            emitted'[k].name = "job-error" =>
                LET j == emitted'[k].job
                IN  /\ Starts(startedJobs', j) = 1
                    /\ Reports(finishedJobs', j) = 1
                    /\ \A q \in 1..Len(queue') : queue'[q].id > j
                    /\ \/ pc' \in Suspended /\ isRunning' /\ run'.job.id > j
                       \/ pc' = "idle" /\ ~isRunning' /\ queue' = << >>]_vars

\* a job has failed and the job queued behind it is being typed
C17_Witness ==
    \E k \in 1..Len(emitted) :
        /\ emitted[k].name = "job-error"
        /\ pc \in Suspended
        /\ run.job.id > emitted[k].job
        /\ isRunning

\* C18: currentJob is null whenever the runner is not running, it is never
\* anything but the job in flight, and every step that hands an instruction to
\* the injector leaves it designating the job of that instruction.
C18_CurrentJobWhileRunning ==
    /\ [](~isRunning => currentJob = Undefined)
    /\ [](currentJob # Undefined => (pc \in Suspended /\ currentJob = Some(run.job)))
    /\ [][Len(dispatched') > Len(dispatched) => currentJob' = Some(run'.job)]_vars

\* the event is among those of the step
Emits(events, name) == \E k \in 1..Len(events) : events[k].name = name

\* C20: a step emits 'started' only when it is an accepted enqueueText that
\* found the runner not running, or a resume() that found the simulator paused
\* with a non-empty queue; it does emit it when such a call finds the runner
\* neither running nor (for enqueueText) paused; and the runner is running
\* from the emission on, until an 'idle' of the same step.
C20_StartedOnlyWithWork ==
    [][LET enqueued == lastCall'.op = "enqueueText" /\ lastCall'.ret = "job"
           resumed == lastCall'.op = "resume" /\ isPaused /\ queue # << >>
       IN  /\ Emits(emitted', "started") =>
                  /\ (enqueued /\ ~isRunning) \/ resumed
                  /\ isRunning' \/ Emits(emitted', "idle")
           /\ (enqueued /\ ~isRunning /\ ~isPaused) => Emits(emitted', "started")
           /\ (resumed /\ ~isRunning) => Emits(emitted', "started")]_vars

\* C19: at most one activation of the runner loop exists, and exists exactly
\* while the simulator is flagged running; a job is paced only within it; a job
\* is started only once the job before it is reported; and the instructions
\* of a job are dispatched with no instruction of another job between them.
C19_OneLoopOneJob ==
    /\ activeLoops \in {0, 1}
    /\ activeLoops = 1 <=> isRunning
    /\ pc \in Suspended => activeLoops = 1
    /\ Len(startedJobs) = Len(finishedJobs) + (IF pc \in Suspended THEN 1 ELSE 0)
    /\ \A i, k \in 1..Len(dispatched) :
           (i < k /\ dispatched[i].job = dispatched[k].job) =>
               \A j \in i..k : dispatched[j].job = dispatched[i].job

\* the loop has ended, the listener of 'idle' has enqueued a text from within
\* the emit, and the loop that this started is typing it
C19_Witness ==
    /\ env.listener = Some([event |-> "idle", op |-> "enqueueText"])
    /\ ~listenerArmed
    /\ lastCall.op = "runner"
    /\ Emits(emitted, "idle")
    /\ Emits(emitted, "started")
    /\ pc \in Suspended
    /\ Len(finishedJobs) >= 1

\* how many events of this name the step has emitted
Count(events, name) == Cardinality({ k \in 1..Len(events) : events[k].name = name })

\* C21: a runner step that reports a job and then finds the queue empty, the
\* simulator not paused, ends the loop: the runner was running and is not any
\* more, and 'idle' is emitted once, as the last event of the step.  No step
\* emits 'idle' twice.
C21_IdleOnExhaustion ==
    [][ /\ Count(emitted', "idle") <= 1
        /\ ( /\ lastCall'.op = "runner"
             /\ Len(finishedJobs') > Len(finishedJobs)
             /\ Len(startedJobs') = Len(finishedJobs')
             /\ queue' = << >>
             /\ ~isPaused' )
           => /\ isRunning
              /\ ~isRunning'
              /\ pc' = "idle"
              /\ Count(emitted', "idle") = 1
              /\ emitted'[Len(emitted')] = Event("idle", 0)
              /\ emitted'[Len(emitted') - 1].name \in {"job-done", "job-error"}]_vars

\* the second of two jobs is done, the queue is empty and the runner is idle
C21_Witness ==
    /\ lastCall = RunnerStep
    /\ Len(finishedJobs) = 2
    /\ queue = << >>
    /\ ~isPaused
    /\ ~isRunning
    /\ emitted = << Event("job-done", 2), Event("idle", 0) >>

\* the events of the step after its first
Rest(events) == SubSeq(events, 2, Len(events))

\* the jobs the simulator knows after the step: queued, in flight or reported
KnownJobs ==
    { queue'[k] : k \in 1..Len(queue') } \cup { run'.job }
        \cup { finishedJobs'[k].job : k \in 1..Len(finishedJobs') }

\* C22: a step that is an accepted enqueueText makes one new job, of the text
\* given, that goes behind every job started or queued before it; its first
\* event is 'queued' for that job and it emits no other 'queued'; when it
\* finds the runner running or the simulator paused it does no more than
\* that, and when it finds neither it emits 'started' next and the runner
\* shifts the job at the head of the queue.  No 'progress' is ever emitted
\* for a job that has not been queued.
C22_EnqueueQueuesThenStarts ==
    /\ [](\A k \in 1..Len(emitted) :
             emitted[k].name = "progress" => emitted[k].job < nextId)
    /\ [][(lastCall'.op = "enqueueText" /\ lastCall'.ret = "job") =>
            /\ nextId' = nextId + 1
            /\ startedJobs' \o Ids(queue') = (startedJobs \o Ids(queue)) \o << nextId >>
            /\ \E j \in KnownJobs : j.id = nextId
            /\ \A j \in KnownJobs : j.id = nextId => j.text = StringOf(lastCall'.arg)
            /\ emitted'[1] = Event("queued", nextId)
            /\ Count(emitted', "queued") = 1
            /\ (isRunning \/ isPaused) =>
                   /\ emitted' = << Event("queued", nextId) >>
                   /\ queue' = Append(queue, EnqueuedJob)
                   /\ UNCHANGED << isRunning, isPaused, currentJob, RunnerFields >>
            /\ (~isRunning /\ ~isPaused) =>
                   /\ emitted'[2] = Event("started", 0)
                   /\ Len(startedJobs') > Len(startedJobs)
                   /\ startedJobs'[Len(startedJobs) + 1] = Head(Append(Ids(queue), nextId))
                   /\ isRunning' \/ Emits(emitted', "idle")]_vars

\* the runner had gone idle after a first job, and the second enqueueText
\* has started it again on the job it queued
C22_Witness ==
    /\ lastCall.op = "enqueueText"
    /\ lastCall.ret = "job"
    /\ emitted = << Event("queued", 2), Event("started", 0) >>
    /\ finishedJobs # << >>
    /\ pc \in Suspended
    /\ run.job.id = 2

\* how often the job with this id is in the queue
Queued(q, id) == Cardinality({ k \in 1..Len(q) : q[k].id = id })

\* C23: every job enqueueText has accepted is in exactly one of three
\* places: in the queue, once; shifted off it by the runner, once; dropped by
\* a stop().  A shifted job is reported once as soon as it is not in flight
\* any more and never before, only a shifted job has instructions dispatched,
\* and the runner never has a job that enqueueText did not accept.
C23_EachJobOnce ==
    /\ \A id \in 1..(nextId - 1) :
          LET started == Starts(startedJobs, id)
              inFlight == pc \in Suspended /\ run.job.id = id
          IN  /\ Queued(queue, id) + started + (IF id \in dropped THEN 1 ELSE 0) = 1
              /\ Reports(finishedJobs, id) = (IF started = 1 /\ ~inFlight THEN 1 ELSE 0)
              /\ Delivered(dispatched, id) > 0 => started = 1
    /\ \A k \in 1..Len(startedJobs) : startedJobs[k] \in 1..(nextId - 1)
    /\ \A k \in 1..Len(dispatched) : dispatched[k].job \in 1..(nextId - 1)
    /\ dropped \subseteq 1..(nextId - 1)

\* a third job has been enqueued while the runner is suspended in the
\* second, which another call had queued behind the first, now reported
C23_Witness ==
    /\ lastCall.op = "enqueueText"
    /\ emitted = << Event("queued", 3) >>
    /\ pc \in Suspended
    /\ run.job.id = 2
    /\ Reports(finishedJobs, 1) = 1
    /\ Ids(queue) = << 3 >>

\* C24: the rate of the simulator is at least 5 words per minute, and so is
\* the rate at which the job in flight is paced.
C24_RateAtLeastFive ==
    /\ wpm >= 5
    /\ pc \in Suspended => run.wpm >= 5

\* C25: the simulator has maxBatchSize >= minBatchSize >= 1.
C25_BatchSizesOrdered ==
    /\ maxBatchSize >= minBatchSize
    /\ minBatchSize >= 1

\* the step starts the paced delay of the instruction dispatched last
StartsPacedWait ==
    /\ Len(dispatched') = Len(dispatched)
    /\ dispatched # << >>
    /\ dispatched[Len(dispatched)].wait = NoWait
    /\ dispatched'[Len(dispatched)].wait.wpm # 0

\* C26: a setWpm or setBatchMode call leaves the runner and its job as they
\* are; a job keeps, from each suspension to the next, the rate and the mode it
\* was started with, which are those of its metadata or else those of the
\* simulator in the step that starts it; every instruction is dispatched in
\* the mode of its job and every paced delay is computed at the rate of its job.
C26_ConfigTakesEffectNextJob ==
    [][ /\ lastCall'.op \in {"setWpm", "setBatchMode"} =>
               UNCHANGED << RunnerFields, queue, isRunning, isPaused, currentJob >>
        /\ (pc \in Suspended /\ pc' \in Suspended /\ run'.job.id = run.job.id) =>
               /\ run'.wpm = run.wpm
               /\ run'.useBatch = run.useBatch
        /\ (pc' \in Suspended /\ Starts(startedJobs, run'.job.id) = 0) =>
               /\ run'.wpm = OrDefault(run'.job.meta.wpm, wpm')
               /\ run'.useBatch = IfDefined(run'.job.meta.batchMode, batchMode')
        /\ \A k \in (Len(dispatched) + 1)..Len(dispatched') :
               (dispatched'[k].job = run'.job.id /\ pc' \in Suspended) =>
                   dispatched'[k].useBatch = run'.useBatch
        /\ StartsPacedWait => dispatched'[Len(dispatched)].wait.wpm = run.wpm ]_vars

\* the rate and the mode were set while a job with no rate or mode of its own
\* was in flight, and its next instruction has been paced at the old rate
C26_Witness ==
    /\ lastCall = RunnerStep
    /\ pc \in {"wait", "waitChar"}
    /\ run.job.meta = EmptyMeta
    /\ run.wpm # wpm
    /\ run.useBatch # batchMode
    /\ Delivered(dispatched, run.job.id) >= 2
    /\ dispatched[Len(dispatched)].wait.wpm = run.wpm

\* C27: a step that is pause() sets the pause flag, emits the one event
\* 'paused' and leaves the queue, the other fields of the simulator, the
\* runner and what it has dispatched as they were; an accepted enqueueText
\* that finds the simulator paused appends its job, emits the one event
\* 'queued' and leaves the runner as it was; from a paused simulator only a
\* step that is resume() starts a job, and any other step dispatches for no
\* job but the one in flight; and no job in the queue has had an instruction
\* dispatched.
C27_PauseFrame ==
    /\ [](\A k \in 1..Len(queue) : Delivered(dispatched, queue[k].id) = 0)
    /\ [][ /\ lastCall'.op = "pause" =>
                 /\ isPaused'
                 /\ emitted' = << Event("paused", 0) >>
                 /\ UNCHANGED << queue, isRunning, currentJob, wpm, batchMode,
                                 defaultDelay, maxBatchSize, minBatchSize,
                                 RunnerFields, nextId >>
           /\ (isPaused /\ lastCall'.op = "enqueueText" /\ lastCall'.ret = "job") =>
                 /\ isPaused'
                 /\ Len(queue') = Len(queue) + 1
                 /\ SubSeq(queue', 1, Len(queue)) = queue
                 /\ queue'[Len(queue')].id = nextId
                 /\ emitted' = << Event("queued", nextId) >>
                 /\ UNCHANGED << isRunning, currentJob, RunnerFields >>
           /\ (isPaused /\ lastCall'.op # "resume") =>
                 /\ startedJobs' = startedJobs
                 /\ \A k \in (Len(dispatched) + 1)..Len(dispatched') :
                        pc \in Suspended /\ dispatched'[k].job = run.job.id ]_vars

\* pause() met the first job in flight, the runner has left it and gone
\* idle, and a second job enqueued since waits in the queue
C27_Witness ==
    /\ isPaused
    /\ lastCall.op = "enqueueText"
    /\ emitted = << Event("queued", 2) >>
    /\ truncated = {1}
    /\ ~isRunning
    /\ Ids(queue) = << 2 >>
    /\ startedJobs = << 1 >>

\* a job with metadata that is an object
Proper(job) == ~job.meta.null

\* the proper jobs that are queued or in flight
Pending ==
    { queue[k] : k \in { n \in 1..Len(queue) : Proper(queue[n]) } }
        \cup (IF pc \in Suspended /\ Proper(run.job) THEN { run.job } ELSE {})

\* the job with this id has been reported by job-done
Done(id) ==
    \E k \in 1..Len(finishedJobs) :
        finishedJobs[k].job.id = id /\ finishedJobs[k].kind = "job-done"

\* C28: a stop() leaves the simulator not paused, and an accepted
\* enqueueText that follows it queues its job and has the runner running (or
\* already through).  Every job accepted with metadata that is an object is
\* queued, in flight, reported by job-done or dropped by a stop(); and
\* whenever such jobs are queued or in flight, after a stop() as at any other
\* time, the runner comes to have none of them left, with no resume() needed,
\* unless a pause() called since has the simulator paused.
C28_StopIsNotTerminal ==
    /\ [][(lastCall.op = "stop" /\ lastCall'.op = "enqueueText" /\ lastCall'.ret = "job") =>
             /\ ~isPaused
             /\ emitted'[1] = Event("queued", nextId)
             /\ isRunning' \/ Reports(finishedJobs', nextId) = 1]_vars
    /\ [](\A f \in FinishedJobs : Proper(f.job) => Done(f.job.id))
    /\ [](\A id \in 1..(nextId - 1) :
             \/ Queued(queue, id) = 1
             \/ pc \in Suspended /\ run.job.id = id
             \/ Reports(finishedJobs, id) = 1
             \/ id \in dropped)
    /\ (Pending # {}) ~> (Pending = {} \/ isPaused)

\* stop() was called on a paused simulator with a job queued; the job
\* enqueued next has been typed and reported with no resume()
C28_Witness ==
    /\ dropped = {1}
    /\ startedJobs = << 2 >>
    /\ Done(2)
    /\ lastCall = RunnerStep
    /\ ~isRunning

IsPrefix(a, b) == Len(a) <= Len(b) /\ SubSeq(b, 1, Len(a)) = a

\* the jobs reported job-done, in either mode, that no pause() or stop() has met
UninterruptedJobs ==
    { f \in FinishedJobs : f.kind = "job-done" /\ f.job.id \notin interrupted }

\* C29: with a newline for each ENTER instruction and a tab for each TAB
\* instruction, the payloads dispatched for a job, in the order of dispatch,
\* spell a prefix of the text of the job at every moment, in batch mode and in
\* character mode, and spell the whole text once a job that no pause() or
\* stop() has met is reported done; in character mode each instruction is
\* one character or one token.
C29_ScanOrder ==
    /\ \A f \in UninterruptedJobs : TextOf(JobLog(f.job.id)) = f.job.text
    /\ \A f \in FinishedJobs : IsPrefix(TextOf(JobLog(f.job.id)), f.job.text)
    /\ pc \in Suspended => IsPrefix(TextOf(JobLog(run.job.id)), run.job.text)
    /\ \A k \in 1..Len(dispatched) :
          ~dispatched[k].useBatch => Len(TextOf(<< dispatched[k] >>)) = 1

\* a batch-mode job of a literal, a token and a literal is done, in three
\* instructions
C29_Witness ==
    \E f \in UninterruptedJobs :
        /\ f.useBatch
        /\ Len(f.job.text) = MaxTextLen
        /\ IsLiteralChar(f.job.text[1])
        /\ IsControlChar(f.job.text[2])
        /\ IsLiteralChar(f.job.text[MaxTextLen])
        /\ Len(JobLog(f.job.id)) = 3
        /\ pc = "idle"

\* the literal batches dispatched in batch mode
BatchLiterals ==
    { k \in 1..Len(dispatched) : dispatched[k].useBatch /\ dispatched[k].site = "literal" }

\* C30: a literal payload dispatched in batch mode is not empty, has no
\* newline and no tab in it, and has none of . ! ? , ; : anywhere but at its end.
C30_LiteralShape ==
    \A k \in BatchLiterals :
        LET p == dispatched[k].payload
        IN  /\ p # << >>
            /\ \A n \in 1..Len(p) : ~IsControlChar(p[n])
            /\ \A n \in 1..(Len(p) - 1) : p[n] \notin {".", "!", "?", ",", ";", ":"}

\* a batch that a comma ended has been dispatched, and the letter after it
\* in a batch of its own
C30_Witness ==
    \E k \in BatchLiterals :
        /\ dispatched[k].payload = << "a", "," >>
        /\ k + 1 \in BatchLiterals
        /\ dispatched[k + 1].payload = << "a" >>
        /\ dispatched[k + 1].job = dispatched[k].job

\* C31: the delay after a literal batch of batch mode has an extra pause of
\* 260 ms when the batch ends in '.', '!' or '?' and of 0 ms otherwise; and
\* the step that flushes a batch asks for 260 ms exactly when the batch ends
\* so, and for none when the flush is the one before a newline or a tab or
\* the one at the end of the text, where the batch never ends in punctuation.
C31_ExtraPauseIffSentenceEnd ==
    /\ [](\A k \in PacedFlushes :
             LET p == dispatched[k].payload
             IN  dispatched[k].wait.extra =
                     (IF p[Len(p)] \in {".", "!", "?"} THEN 260 ELSE 0))
    /\ [][(pc' = "send" /\ Len(dispatched') > Len(dispatched)) =>
             LET p == run'.batch
                 last == p[Len(p)]
             IN  /\ dispatched'[Len(dispatched')].payload = p
                 /\ run'.extraPause = (IF last \in {".", "!", "?"} THEN 260 ELSE 0)
                 /\ run'.after \in {"enter", "tab", "end"} =>
                        /\ run'.extraPause = 0
                        /\ last \notin {".", "!", "?", ",", ";", ":"}]_vars

\* a batch flushed for a tab has waited with no extra pause, and the '!'
\* after the tab with 260 ms
C31_Witness ==
    \E k \in PacedFlushes :
        /\ dispatched[k].payload = << "a" >>
        /\ dispatched[k].wait.extra = 0
        /\ k + 2 \in PacedFlushes
        /\ dispatched[k + 1].payload = TAB
        /\ dispatched[k + 2].payload = << "!" >>
        /\ dispatched[k + 2].wait.extra = 260

\* C32: a step that emits 'idle' leaves the queue empty and the simulator
\* not paused.
C32_IdleOnlyWhenDrained ==
    Emits(emitted, "idle") => (queue = << >> /\ ~isPaused)

\* C33: when stop() follows a pause() made during the job in flight, with no
\* resume() in between, the runner step that comes next dispatches nothing
\* more of that job.
C33_StopAfterPauseEndsJob ==
    [][(stopMark # Undefined /\ stopMark[1].afterPause /\ lastCall'.op = "runner")
        => Delivered(dispatched', stopMark[1].job)
               = Delivered(dispatched, stopMark[1].job)]_vars

\* a stop() has met the job in flight: the job runs on with the reference
\* to it cleared (line 220)
StoppedInFlight == pc \in Suspended /\ currentJob = Undefined

\* C34: a stop() made while a job is in flight and the simulator is not paused
\* leaves the runner where it was and truncates nothing; a job is truncated
\* only by a runner step that finds the pause flag set; the job that met a
\* stop() is reported in the end, and unless a later pause() has truncated it
\* it is reported by 'job-done' with the instructions of its whole text
\* dispatched in order, 'idle' following in the same step when no job waits.
C34_StopDoesNotTruncate ==
    /\ [][(lastCall'.op = "stop" /\ pc \in Suspended /\ ~isPaused)
            => /\ pc' = pc /\ run' = run /\ isRunning' /\ ~isPaused'
               /\ dispatched' = dispatched /\ truncated' = truncated
               /\ finishedJobs' = finishedJobs
               /\ emitted' = << Event("stopped", 0) >>
               /\ stopMark' = Some([job |-> run.job.id, afterPause |-> FALSE])
               /\ StoppedInFlight']_vars
    /\ [][truncated' # truncated => (isPaused /\ lastCall'.op = "runner")]_vars
    /\ [][(/\ StoppedInFlight
            /\ Len(finishedJobs') > Len(finishedJobs)
            /\ run.job.id \notin truncated')
            => LET f == finishedJobs'[Len(finishedJobs) + 1]
               IN  /\ f.job = run.job
                   /\ f.kind = "job-done"
                   /\ TextOf(SelectSeq(dispatched', LAMBDA d : d.job = f.job.id))
                          = f.job.text
                   /\ Cardinality({ k \in 1..Len(emitted') :
                                       emitted'[k] = Event("job-done", f.job.id) }) = 1
                   /\ \A k \in 1..Len(emitted') :
                          emitted'[k] # Event("job-error", f.job.id)
                   /\ (queue = << >> /\ ~isPaused) =>
                          /\ emitted'[Len(emitted')] = Event("idle", 0)
                          /\ emitted'[Len(emitted') - 1] = Event("job-done", f.job.id)
                          /\ ~isRunning']_vars
    /\ StoppedInFlight ~> ~StoppedInFlight

C34_Witness ==
    /\ lastCall.op = "runner"
    /\ StoppedInFlight
    /\ run.job.text = <<"a", "\n">>
    /\ pc = "sendCtl"
    /\ TextOf(JobLog(run.job.id)) = run.job.text
    /\ ~isPaused
    /\ run.job.id \notin interrupted \/ pauseMark = Undefined
    /\ run.job.id \notin truncated

\* C35: a pause() made while the runner is suspended in a dispatch or a delay
\* emits 'paused' only and leaves the runner as it was; a resume() that comes
\* before the runner goes on clears the flag, emits 'resumed' only (neither
\* 'started' nor 'idle'), starts no second loop and leaves the runner and the
\* queue as they were; the runner step that follows truncates no job.
C35_PauseResumeInOneSuspension ==
    /\ [][(lastCall'.op = "pause" /\ pc \in Suspended)
            => /\ emitted' = << Event("paused", 0) >>
               /\ isPaused'
               /\ UNCHANGED << queue, isRunning, currentJob, activeLoops,
                               RunnerFields >>]_vars
    /\ [][(lastCall'.op = "resume" /\ isPaused /\ pc \in Suspended)
            => /\ emitted' = << Event("resumed", 0) >>
               /\ ~isPaused'
               /\ isRunning' /\ activeLoops' = 1
               /\ UNCHANGED << queue, isRunning, currentJob, activeLoops,
                               RunnerFields >>]_vars
    /\ [][(lastCall.op = "resume" /\ pc \in Suspended /\ lastCall'.op = "runner")
            => /\ truncated' = truncated
               /\ activeLoops' <= 1
               /\ ~Emits(emitted', "started")]_vars

C35_Witness ==
    /\ lastCall.op = "runner"
    /\ pc = "wait"
    /\ run.job.text = <<"a", "\n">>
    /\ Delivered(dispatched, run.job.id) = 1
    /\ run.job.id \in interrupted
    /\ currentJob = Some(run.job)
    /\ truncated = {}
    /\ ~isPaused
    /\ isRunning
    /\ activeLoops = 1

\* C36: in every state between two steps (after a public operation has
\* returned, after the runner has gone as far as its next await), a non-empty
\* queue with the pause flag clear has one runner loop active, suspended in
\* the job it is running.
C36_NoLostWakeup ==
    (queue # << >> /\ ~isPaused)
        => (isRunning /\ activeLoops = 1 /\ pc \in Suspended)

C36_Witness ==
    /\ lastCall.op = "resume"
    /\ emitted = << Event("resumed", 0), Event("started", 0) >>
    /\ queue # << >>
    /\ ~isPaused
    /\ isRunning
    /\ activeLoops = 1
    /\ pc \in Suspended

\* C37: the events 'started' and 'idle' alternate, 'started' first, and every
\* 'progress', 'job-done' and 'job-error' comes after a 'started' and before
\* the 'idle' that follows it; the runner is running exactly between a
\* 'started' and the next 'idle'.
C37_StartedIdleAlternate ==
    /\ phase # "broken"
    /\ (phase = "open") <=> isRunning

C37_Witness ==
    /\ env.listener = Some([event |-> "idle", op |-> "enqueueText"])
    /\ ~listenerArmed
    /\ lastCall.op = "runner"
    /\ phase = "open"
    /\ finishedJobs # << >>
    /\ \E k \in 1..Len(emitted) :
           /\ k + 2 <= Len(emitted)
           /\ emitted[k].name = "idle"
           /\ emitted[k + 1].name = "queued"
           /\ emitted[k + 2].name = "started"
           /\ k > 1 /\ emitted[k - 1].name \in {"job-done", "job-error"}

TerminalEvents == {"job-done", "job-error"}

\* C38: a 'job-done' or 'job-error' is emitted for a job the runner has
\* shifted once and not yet reported, and no other such event is emitted for
\* that job in the step; a 'progress' is emitted for the job that was in
\* flight when the step began, before any 'job-done' or 'job-error' of the
\* step, every job started before it being reported already; and every job
\* the runner has shifted is reported in the end.
C38_OneTerminalEvent ==
    /\ [][\A k \in 1..Len(emitted') :
            LET e == emitted'[k]
            IN  /\ e.name \in TerminalEvents =>
                       /\ Starts(startedJobs', e.job) = 1
                       /\ Reports(finishedJobs, e.job) = 0
                       /\ Reports(finishedJobs', e.job) = 1
                       /\ \E n \in 1..Len(finishedJobs') :
                              /\ finishedJobs'[n].job.id = e.job
                              /\ finishedJobs'[n].kind = e.name
                       /\ \A l \in 1..Len(emitted') :
                              (l # k /\ emitted'[l].name \in TerminalEvents)
                                  => emitted'[l].job # e.job
                /\ e.name = "progress" =>
                       /\ pc \in Suspended
                       /\ e.job = run.job.id
                       /\ Starts(startedJobs, e.job) = 1
                       /\ Reports(finishedJobs, e.job) = 0
                       /\ \A n \in 1..Len(startedJobs) :
                              startedJobs[n] # e.job
                                  => Reports(finishedJobs, startedJobs[n]) = 1
                       /\ \A l \in 1..(k - 1) :
                              emitted'[l].name \notin TerminalEvents]_vars
    /\ [](Len(finishedJobs) <= Len(startedJobs))
    /\ (Len(finishedJobs) < Len(startedJobs)) ~> (Len(finishedJobs) = Len(startedJobs))

C38_Witness ==
    \E k \in 1..Len(emitted) :
        /\ k + 2 <= Len(emitted)
        /\ emitted[k].name = "progress"
        /\ emitted[k + 1] = Event("job-done", emitted[k].job)
        /\ emitted[k + 2] = Event("job-error", emitted[k].job + 1)
        /\ Len(finishedJobs) = 2

\* a job waits in the queue or is in flight
Busy == queue # << >> \/ pc \in Suspended

\* the queue is empty, the runner is idle, and every job accepted so far has
\* been reported, or dropped by a stop()
Drained ==
    /\ queue = << >>
    /\ pc = "idle"
    /\ ~isRunning
    /\ \A id \in 1..(nextId - 1) : Reports(finishedJobs, id) = 1 \/ id \in dropped

\* C39: when every dispatch and every delay ends (the runner's continuations
\* are taken) and the simulator is not paused for ever, a waiting or running
\* job leads to the queue empty, the runner idle and every accepted job
\* reported (a job a stop() has dropped excepted); and the runner step that
\* ends the loop emits 'idle' last and leaves the runner not running.
C39_QueueDrains ==
    /\ ([]<>(~isPaused)) => (Busy ~> Drained)
    /\ [][(pc \in Suspended /\ pc' = "idle")
            => /\ lastCall'.op = "runner"
               /\ emitted'[Len(emitted')] = Event("idle", 0)
               /\ ~isRunning'
               /\ (~isPaused => Drained')]_vars

C39_Witness ==
    /\ Drained
    /\ lastCall.op = "runner"
    /\ emitted # << >> /\ emitted[Len(emitted)] = Event("idle", 0)
    /\ nextId = 3
    /\ dropped = {} /\ truncated = {} /\ interrupted = {}
    /\ \A k \in 1..Len(finishedJobs) : finishedJobs[k].kind = "job-done"
    /\ Len(dispatched) >= 3
====
